---- MODULE Spec2Model ----
(***************************************************************************)
(* Model of the rag-pipeline repository:                                   *)
(*   - embed_sparse         (pinecone-embedding/src/rag_ingest)            *)
(*   - load_parquet_from_s3 (pinecone-embedding/src/rag_ingest)            *)
(*   - build_context_string (rag-query/llm_generation.py)                  *)
(*   - the Flask service    (api.py)                                       *)
(* Each component has its own specification over the shared variables; the *)
(* variables of the other components stay at their idle values.            *)
(* Durations are in seconds (backoff) and milliseconds (pacing); sparse    *)
(* values are in thousandths.                                              *)
(***************************************************************************)
EXTENDS Integers, Sequences, FiniteSets, TLC

VARIABLES
  \* ---- embed_sparse
  all_chunks,          \* df[text_col].to_list()
  batch_size,          \* parameter batch_size
  requests_per_minute, \* parameter requests_per_minute
  i,                   \* loop variable of the batch loop (0-based offset)
  attempt,             \* loop variable of the retry loop (0-based)
  retry_delay,         \* seconds
  sparse_embeddings,   \* the accumulated output list
  e_pc,                \* "for" | "try" | "done" | "raised"
  e_error,             \* the exception that left embed_sparse, if any
  e_return,            \* [set, val]: the returned list, if any
  last_failure,        \* the exception of the latest failed call of the batch
  fails,               \* failed calls of the current batch so far
  waits,               \* backoff sleeps of the current batch: [delay, status]
  provided,            \* every item the provider returned, in order
  prev_batch,          \* the latest finished batch: start, attempts, delays,
                       \* pacing sleep, and the attempts of the batch before it
  slept,               \* the time.sleep calls made since the latest embedding
                       \* call: [kind, ms]
  \* ---- load_parquet_from_s3
  l_args,              \* [is_local, prefix, single_key]
  l_files,             \* local: the files under base
  l_pages,             \* remote: the pages of the listing
  parquet_files,       \* list of discovered keys
  continuation_token,  \* 0 = None, -1 = "", k > 0 = the token leading to page k
  l_requests,          \* list_objects_v2 requests made: the page each got
  l_fetched,           \* keys fetched with get_object / read, in order
  l_pc,                \* "start" | "list" | "check" | "fetch" | "done" | "raised"
  l_result,            \* [kind, rows]
  \* ---- build_context_string
  retrieved_chunks,    \* argument
  max_chunks,          \* argument: [given, n]
  context_string,      \* result: sequence of lines
  c_pc,                \* "call" | "done"
  \* ---- api.py
  a_pc,                \* "init_baseline" | "init_hybrid" | "loaded" |
                       \* "serving" | "crashed"
  baseline_pipeline,   \* [state, use_reranking, runs]
  hybrid_pipeline,     \* [state, use_reranking, runs]
  a_runs,              \* run invocations made by the latest request
  a_request,           \* the latest request, and where the service was (at)
  a_response,          \* the latest response
  a_served             \* number of /query requests handled so far

embedVars == <<all_chunks, batch_size, requests_per_minute, i, attempt,
               retry_delay, sparse_embeddings, e_pc, e_error, e_return,
               last_failure, fails, waits, provided, prev_batch, slept>>
loaderVars == <<l_args, l_files, l_pages, parquet_files, continuation_token,
                l_requests, l_fetched, l_pc, l_result>>
ctxVars == <<retrieved_chunks, max_chunks, context_string, c_pc>>
apiVars == <<a_pc, baseline_pipeline, hybrid_pipeline, a_runs, a_request,
             a_response, a_served>>
vars == <<embedVars, loaderVars, ctxVars, apiVars>>

\* ------------------------------------------------------------------ helpers
Min(a, b) == IF a < b THEN a ELSE b

RECURSIVE Pow2(_)
Pow2(n) == IF n = 0 THEN 1 ELSE 2 * Pow2(n - 1)

\* Python slice s[lo:hi] with 0 <= lo, on a 0-based view of the 1-based s
Slice(s, lo, hi) == SubSeq(s, lo + 1, Min(hi, Len(s)))

\* ------------------------------------------------------------------ bounds
MaxTexts == 3
MaxBatch == 2

\* ------------------------------------------------------- idle values
NoError == [type |-> "none", status |-> 0, attempt |-> 0, batch |-> 0]
NoReturn == [set |-> FALSE, val |-> <<>>]
NoBatch == [start |-> -1, attempts |-> 0, delays |-> <<>>, pace |-> 0,
            before |-> 0]

EmbedIdle ==
  /\ all_chunks = <<>> /\ batch_size = 1 /\ requests_per_minute = 5
  /\ i = 0 /\ attempt = 0 /\ retry_delay = 1
  /\ sparse_embeddings = <<>> /\ e_pc = "idle"
  /\ e_error = NoError /\ e_return = NoReturn /\ last_failure = NoError
  /\ fails = 0 /\ waits = <<>> /\ provided = <<>> /\ prev_batch = NoBatch
  /\ slept = <<>>

LoaderIdle ==
  /\ l_args = [is_local |-> FALSE, prefix |-> "<None>", single_key |-> "<None>"]
  /\ l_files = {} /\ l_pages = <<>> /\ parquet_files = <<>>
  /\ continuation_token = 0 /\ l_requests = <<>> /\ l_fetched = <<>>
  /\ l_pc = "idle" /\ l_result = [kind |-> "none", rows |-> <<>>]

ContextIdle ==
  /\ retrieved_chunks = <<>> /\ max_chunks = [given |-> FALSE, n |-> 0]
  /\ context_string = <<>> /\ c_pc = "idle"

NoRequest == [kind |-> "none", data |-> <<>>, at |-> "none"]
NoResponse == [kind |-> "none", body |-> <<>>]

Unconstructed == [state |-> "unconstructed", use_reranking |-> FALSE, runs |-> 0]

ApiIdle ==
  /\ a_pc = "idle" /\ baseline_pipeline = Unconstructed
  /\ hybrid_pipeline = Unconstructed /\ a_runs = <<>>
  /\ a_request = NoRequest /\ a_response = NoResponse /\ a_served = 0

\* ================================================================ embed_sparse
max_retries == 5

\* the texts of the input column: distinct text ids
Texts(n) == [k \in 1..n |-> 100 + k]

\* the rates the function is run with (the default 5, and 60)
Rates == {5, 60}

\* 60.0 / requests_per_minute, in milliseconds
delay_between_requests == 60000 \div requests_per_minute

\* what the inference endpoint returns for one text: an item whose
\* sparse_indices is empty, or the item of that text
ProviderItem(text, empty) ==
  IF empty THEN [sparse_indices |-> <<>>, sparse_values |-> <<>>]
           ELSE [sparse_indices |-> <<text>>, sparse_values |-> <<500>>]

\* one item per input of the batch, in input order
ProviderResult(batch, empties) ==
  [k \in 1..Len(batch) |-> ProviderItem(batch[k], k \in empties)]

\* lines 62-73: the record built from one item
Placeholder == [indices |-> <<0>>, values |-> <<1>>]

\* mutant: the empty item is kept as returned
EmbeddingOf_NoPlaceholder(item) ==
  [indices |-> item.sparse_indices, values |-> item.sparse_values]

EmbeddingOf(item) ==
  IF Len(item.sparse_indices) = 0
  THEN Placeholder
  ELSE [indices |-> item.sparse_indices, values |-> item.sparse_values]

chunk_batch == Slice(all_chunks, i, i + batch_size)

\* line 34 with i < len(all_chunks): the loop body starts
NextBatch ==
  /\ UNCHANGED <<loaderVars, ctxVars, apiVars>>
  /\ e_pc = "for"
  /\ i < Len(all_chunks)
  /\ attempt' = 0
  /\ retry_delay' = 1
  /\ fails' = 0
  /\ waits' = <<>>
  /\ last_failure' = NoError
  /\ e_pc' = "try"
  /\ UNCHANGED <<all_chunks, batch_size, requests_per_minute, i,
                 sparse_embeddings, e_error, e_return, provided, prev_batch,
                 slept>>

\* line 34 exhausted, line 80
ReturnEmbeddings ==
  /\ UNCHANGED <<loaderVars, ctxVars, apiVars>>
  /\ e_pc = "for"
  /\ i >= Len(all_chunks)
  /\ e_return' = [set |-> TRUE, val |-> sparse_embeddings]
  /\ e_pc' = "done"
  /\ UNCHANGED <<all_chunks, batch_size, requests_per_minute, i, attempt,
                 retry_delay, sparse_embeddings, e_error, last_failure,
                 fails, waits, provided, prev_batch, slept>>

\* mutant: the pacing sleep is shortened by the time spent backing off
PacingSleep_LessBackoff ==
  [kind |-> "pace", ms |-> delay_between_requests - 1000 * (retry_delay - 1)]

\* line 78: time.sleep(delay_between_requests)
PacingSleep == [kind |-> "pace", ms |-> delay_between_requests]

\* lines 50, 56: time.sleep(retry_delay)
BackoffSleep == [kind |-> "backoff", ms |-> 1000 * retry_delay]

\* lines 42-47, 61-78: the call returns; the items are appended and the
\* pacing sleep is taken
CallSucceeds ==
  /\ UNCHANGED <<loaderVars, ctxVars, apiVars>>
  /\ e_pc = "try"
  /\ attempt < max_retries
  /\ \E empties \in SUBSET (1..Len(chunk_batch)) :
       LET result == ProviderResult(chunk_batch, empties) IN
         /\ sparse_embeddings' =
              sparse_embeddings \o [k \in 1..Len(result) |-> EmbeddingOf(result[k])]
         /\ provided' = provided \o result
  /\ prev_batch' = [start |-> i, attempts |-> attempt + 1,
                    delays |-> [k \in 1..Len(waits) |-> waits[k].delay],
                    pace |-> delay_between_requests,
                    before |-> prev_batch.attempts]
  /\ last_failure' = NoError
  /\ slept' = <<PacingSleep>>
  /\ i' = i + batch_size
  /\ e_pc' = "for"
  /\ UNCHANGED <<all_chunks, batch_size, requests_per_minute, attempt,
                 retry_delay, e_error, e_return, fails, waits>>

\* mutant: the delay grows by one second instead of doubling
RetryAfter_Linear(err) ==
  /\ waits' = Append(waits, [delay |-> retry_delay, status |-> err.status])
  /\ slept' = <<BackoffSleep>>
  /\ retry_delay' = retry_delay + 1
  /\ attempt' = attempt + 1
  /\ UNCHANGED <<e_pc, e_error>>

\* mutant: the exception is swallowed and the batch loop goes on
Reraise_Swallow(err) ==
  /\ e_pc' = "for"
  /\ slept' = <<>>
  /\ UNCHANGED <<e_error, waits, retry_delay, attempt>>

\* the handler bodies of lines 50-51 / 56-57 and 53 / 59
RetryAfter(err) ==
  /\ waits' = Append(waits, [delay |-> retry_delay, status |-> err.status])
  /\ slept' = <<BackoffSleep>>
  /\ retry_delay' = retry_delay * 2
  /\ attempt' = attempt + 1
  /\ UNCHANGED <<e_pc, e_error>>

Reraise(err) ==
  /\ e_error' = err
  /\ e_pc' = "raised"
  /\ slept' = <<>>
  /\ UNCHANGED <<waits, retry_delay, attempt>>

\* mutant: every status is retried like 429
CallRaisesApiException_AnyStatus ==
  /\ UNCHANGED <<loaderVars, ctxVars, apiVars>>
  /\ e_pc = "try"
  /\ attempt < max_retries
  /\ \E status \in {429, 500} :
       LET err == [type |-> "PineconeApiException", status |-> status,
                   attempt |-> attempt, batch |-> i] IN
         /\ last_failure' = err
         /\ IF attempt < max_retries - 1
            THEN RetryAfter(err)
            ELSE Reraise(err)
  /\ fails' = fails + 1
  /\ UNCHANGED <<all_chunks, batch_size, requests_per_minute, i,
                 sparse_embeddings, e_return, provided, prev_batch>>

\* lines 48-53
CallRaisesApiException ==
  /\ UNCHANGED <<loaderVars, ctxVars, apiVars>>
  /\ e_pc = "try"
  /\ attempt < max_retries
  /\ \E status \in {429, 500} :
       LET err == [type |-> "PineconeApiException", status |-> status,
                   attempt |-> attempt, batch |-> i] IN
         /\ last_failure' = err
         /\ IF status = 429 /\ attempt < max_retries - 1
            THEN RetryAfter(err)
            ELSE Reraise(err)
  /\ fails' = fails + 1
  /\ UNCHANGED <<all_chunks, batch_size, requests_per_minute, i,
                 sparse_embeddings, e_return, provided, prev_batch>>

\* lines 54-59
CallRaisesException ==
  /\ UNCHANGED <<loaderVars, ctxVars, apiVars>>
  /\ e_pc = "try"
  /\ attempt < max_retries
  /\ LET err == [type |-> "Exception", status |-> 0,
                 attempt |-> attempt, batch |-> i] IN
       /\ last_failure' = err
       /\ IF attempt < max_retries - 1
          THEN RetryAfter(err)
          ELSE Reraise(err)
  /\ fails' = fails + 1
  /\ UNCHANGED <<all_chunks, batch_size, requests_per_minute, i,
                 sparse_embeddings, e_return, provided, prev_batch>>

EmbedInit ==
  /\ \E n \in 0..MaxTexts : all_chunks = Texts(n)
  /\ batch_size \in 1..MaxBatch
  /\ requests_per_minute \in Rates
  /\ i = 0 /\ attempt = 0 /\ retry_delay = 1
  /\ sparse_embeddings = <<>> /\ e_pc = "for"
  /\ e_error = NoError /\ e_return = NoReturn /\ last_failure = NoError
  /\ fails = 0 /\ waits = <<>> /\ provided = <<>> /\ prev_batch = NoBatch
  /\ slept = <<>>

Init == EmbedInit /\ LoaderIdle /\ ContextIdle /\ ApiIdle

Next ==
  \/ NextBatch
  \/ ReturnEmbeddings
  \/ CallSucceeds
  \/ CallRaisesApiException
  \/ CallRaisesException

Spec == Init /\ [][Next]_vars

\* ------------------------------------------------------ embed_sparse: claims

\* the k-th wait of the schedule 1s, 2s, 4s, 8s
Schedule(n) == [k \in 1..n |-> Pow2(k - 1)]

\* C1: a run of embed_sparse that returns yields exactly one record per input
\* text, the k-th record being the one built from the item the provider
\* returned for the k-th text: the placeholder {indices:[0], values:[0.001]}
\* when that item has no indices, the item's own indices and values
\* otherwise; no returned record has an empty index list.
C1_OneRecordPerText ==
  e_return.set =>
    /\ Len(e_return.val) = Len(all_chunks)
    /\ Len(provided) = Len(all_chunks)
    /\ \A k \in 1..Len(all_chunks) :
         /\ provided[k] \in {ProviderItem(all_chunks[k], TRUE),
                             ProviderItem(all_chunks[k], FALSE)}
         /\ e_return.val[k].indices # <<>>
         /\ e_return.val[k] =
              IF provided[k].sparse_indices = <<>>
              THEN [indices |-> <<0>>, values |-> <<1>>]
              ELSE [indices |-> <<all_chunks[k]>>,
                    values |-> provided[k].sparse_values]

\* C1 witness: three texts in two batches were embedded, one item came back
\* empty and was replaced, another was kept
C1_Witness ==
  /\ e_return.set
  /\ Len(all_chunks) = 3 /\ batch_size = 2
  /\ \E k \in 1..3 : provided[k].sparse_indices = <<>>
                     /\ e_return.val[k].indices = <<0>>
  /\ \E k \in 1..3 : e_return.val[k].indices = <<all_chunks[k]>>

\* C2: within a batch the waits between attempts are 1s, 2s, 4s, 8s in this
\* order, one wait per failed attempt that is retried; the schedule starts
\* again at 1s in every batch whatever the previous batch needed; the first
\* successful call ends the batch (no further call for it) and its items are
\* the ones appended.
C2_BackoffSchedule ==
  /\ e_pc \in {"try", "raised"} =>
       /\ [k \in 1..Len(waits) |-> waits[k].delay] = Schedule(Len(waits))
       /\ Len(waits) = attempt
       /\ retry_delay = Pow2(attempt)
       /\ Len(provided) = i /\ Len(sparse_embeddings) = i
  /\ prev_batch.attempts > 0 =>
       /\ prev_batch.delays = Schedule(prev_batch.attempts - 1)
       /\ prev_batch.attempts <= 5
  /\ e_pc = "for" /\ prev_batch.attempts > 0 =>
       /\ Len(provided) = Min(prev_batch.start + batch_size, Len(all_chunks))
       /\ Len(sparse_embeddings) = Len(provided)
       /\ i = prev_batch.start + batch_size

\* C2 witness: the first batch needed all 4 waits; in the second batch two
\* rate-limit failures were waited for 1s and 2s and the third call
\* succeeded, its items being appended
C2_Witness ==
  /\ e_pc = "for"
  /\ prev_batch.start > 0
  /\ prev_batch.before = 5
  /\ prev_batch.attempts = 3
  /\ waits = <<[delay |-> 1, status |-> 429], [delay |-> 2, status |-> 429]>>
  /\ Len(provided) = prev_batch.start + 1

\* C3: once the call of a batch has failed 5 times, the error of the 5th
\* attempt has left embed_sparse, nothing was returned, and no further step
\* (no 6th attempt, no later batch) is possible.
C3_AbortAfterFiveFailures ==
  /\ fails <= 5
  /\ fails = 5 =>
       /\ e_pc = "raised"
       /\ e_error = last_failure
       /\ e_error.attempt = 4 /\ e_error.batch = i
       /\ ~ e_return.set
       /\ Len(provided) = i
       /\ ~ ENABLED Next

\* C3 witness: the second batch failed 5 times
C3_Witness ==
  /\ fails = 5 /\ e_pc = "raised" /\ i > 0 /\ i < Len(all_chunks)

RetriedKind(err) ==
  \/ err.type = "PineconeApiException" /\ err.status = 429
  \/ err.type = "Exception"

\* C4 as stated: no failure kind makes embed_sparse raise before the 5th
\* attempt of the batch.
C4_AllKindsRetried ==
  e_pc = "raised" => fails = 5

\* C4 as amended: a rate-limit signal (PineconeApiException with status 429)
\* and any exception that is not a PineconeApiException are retried with the
\* same backoff until a call succeeds or 5 attempts were made; a
\* PineconeApiException with any other status is never retried: it is
\* re-raised at once, at whichever attempt it occurs.
C4_RetriedKinds ==
  /\ \A k \in 1..Len(waits) : waits[k].status \in {429, 0}
  /\ e_pc = "raised" =>
       \/ fails = 5
       \/ e_error.type = "PineconeApiException" /\ e_error.status # 429
  /\ e_pc = "try" /\ fails > 0 => RetriedKind(last_failure)
  /\ last_failure.type = "PineconeApiException" /\ last_failure.status # 429
       => e_pc = "raised" /\ e_error = last_failure

\* C4 witness: a rate-limit failure was retried, then an API error with
\* another status ended the run at the 2nd attempt
C4_Witness ==
  /\ e_pc = "raised" /\ fails = 2
  /\ e_error.status = 500
  /\ waits = <<[delay |-> 1, status |-> 429]>>

\* C11: after each batch whose call succeeded exactly one pacing sleep of
\* 60 / requests_per_minute seconds is taken, and it is the only sleep
\* between that call and the first call of the next batch, whatever the
\* number of attempts and the backoff the batch needed; between two attempts
\* of one batch the only sleep is the backoff sleep; before the first call
\* of the first batch there is none.
C11_PacingBetweenBatches ==
  LET pacing == [kind |-> "pace", ms |-> 60000 \div requests_per_minute] IN
    /\ e_pc = "for" /\ prev_batch.attempts > 0 =>
         slept = <<pacing>> /\ prev_batch.pace = pacing.ms
    /\ e_pc = "try" /\ attempt = 0 /\ i > 0 => slept = <<pacing>>
    /\ e_pc = "try" /\ attempt = 0 /\ i = 0 => slept = <<>>
    /\ e_pc = "try" /\ attempt > 0 =>
         slept = <<[kind |-> "backoff", ms |-> 1000 * waits[attempt].delay]>>
    /\ e_pc = "done" /\ Len(all_chunks) > 0 => slept = <<pacing>>

\* C11 witness: the first batch needed four attempts (7 s of backoff); the
\* second batch is about to make its first call after one pacing sleep of
\* 12 s
C11_Witness ==
  /\ e_pc = "try" /\ attempt = 0 /\ i > 0
  /\ requests_per_minute = 5
  /\ prev_batch.attempts = 4 /\ prev_batch.delays = <<1, 2, 4>>
  /\ slept = <<[kind |-> "pace", ms |-> 12000]>>

\* ========================================================= load_parquet_from_s3
MaxFiles == 3
MaxPages == 3
MaxPerPage == 1
MaxRequests == 4

\* Python truthiness of an optional string: None and "" are false
Truthy(str) == str \notin {"<None>", ""}

\* key.endswith('.parquet'), on a key [id, ext]
EndsWithParquet(key) == key.ext = ".parquet"

Exts == {".parquet", ".txt"}

\* the files below base on the local disk: [id, ext, hidden]; hidden is a
\* name (or a directory on the way) that starts with a dot
FileKinds ==
  {[present |-> FALSE, ext |-> ".txt", hidden |-> FALSE]} \cup
  [present : {TRUE}, ext : Exts, hidden : BOOLEAN]

LocalTree(kinds) ==
  {[id |-> n, ext |-> kinds[n].ext, hidden |-> kinds[n].hidden] :
     n \in {m \in 1..MaxFiles : kinds[m].present}}

\* glob.glob(base/**/*.parquet, recursive=True): names ending in .parquet,
\* dot files and dot directories left out
Glob(fs) == {f \in fs : f.ext = ".parquet" /\ ~ f.hidden}

\* sorted(parquet_files): ascending by path (the id stands for the path)
RECURSIVE SortedById(_)
SortedById(S) ==
  IF S = {} THEN <<>>
  ELSE LET m == CHOOSE f \in S : \A g \in S : f.id <= g.id
       IN <<m>> \o SortedById(S \ {m})

\* the orders in which glob may list a set of files
Orders(S) ==
  {p \in [1..Cardinality(S) -> S] : \A a, b \in 1..Cardinality(S) : a # b => p[a] # p[b]}

SeqToSet(q) == {q[k] : k \in 1..Len(q)}

\* the contents of one page of a listing: the extensions of its keys
PageContents ==
  UNION {[1..n -> Exts] : n \in 0..MaxPerPage}

\* a listing of n pages; page p is truncated iff it is not the last one, and
\* a truncated page carries the NextContinuationToken leading to page p+1
\* ("token"), or none ("none": 0), or an empty one ("empty": -1). A page
\* without keys has no "Contents".
TokenKinds == {"token", "none", "empty"}

Listing(n, contents, tokens) ==
  [p \in 1..n |->
     [keys |-> [j \in 1..Len(contents[p]) |->
                  [id |-> 10 * p + j, ext |-> contents[p][j]]],
      truncated |-> p < n,
      next |-> IF p = n THEN 0
               ELSE IF tokens[p] = "token" THEN p + 1
               ELSE IF tokens[p] = "none" THEN 0 ELSE -1]]

\* every key of the listing, over all pages, in listing order
RECURSIVE AllKeys(_, _)
AllKeys(pages, p) ==
  IF p > Len(pages) THEN <<>> ELSE pages[p].keys \o AllKeys(pages, p + 1)

ParquetOf(keys) == SelectSeq(keys, EndsWithParquet)

is_local == l_args.is_local
prefix == l_args.prefix
single_key == l_args.single_key

Raise(kind) ==
  /\ l_result' = [kind |-> kind, rows |-> <<>>]
  /\ l_pc' = "raised"

\* lines 33-36: local Mode A; a missing file raises from the reader
LocalSingle ==
  /\ UNCHANGED <<embedVars, ctxVars, apiVars>>
  /\ l_pc = "start" /\ is_local /\ Truthy(single_key)
  /\ \E found \in BOOLEAN :
       IF found
       THEN /\ l_fetched' = <<[id |-> 0, ext |-> ".parquet"]>>
            /\ l_result' = [kind |-> "table", rows |-> <<[id |-> 0, ext |-> ".parquet"]>>]
            /\ l_pc' = "done"
       ELSE /\ Raise("storage_error")
            /\ UNCHANGED l_fetched
  /\ UNCHANGED <<l_args, l_files, l_pages, parquet_files, continuation_token,
                 l_requests>>

\* lines 38-42: local Mode B
LocalWalk ==
  /\ UNCHANGED <<embedVars, ctxVars, apiVars>>
  /\ l_pc = "start" /\ is_local /\ ~ Truthy(single_key)
  /\ \E found \in Orders(Glob(l_files)) :
       /\ parquet_files' = found
       /\ IF Len(found) = 0
          THEN /\ Raise("FileNotFoundError")
               /\ UNCHANGED l_fetched
          ELSE /\ l_fetched' = SortedById(SeqToSet(found))
               /\ l_result' = [kind |-> "table", rows |-> SortedById(SeqToSet(found))]
               /\ l_pc' = "done"
  /\ UNCHANGED <<l_args, l_files, l_pages, continuation_token, l_requests>>

\* lines 48-50: remote Mode A; a missing object raises from the client
RemoteSingle ==
  /\ UNCHANGED <<embedVars, ctxVars, apiVars>>
  /\ l_pc = "start" /\ ~ is_local /\ Truthy(single_key)
  /\ \E found \in BOOLEAN :
       IF found
       THEN /\ l_fetched' = <<[id |-> 0, ext |-> ".parquet"]>>
            /\ l_result' = [kind |-> "table", rows |-> <<[id |-> 0, ext |-> ".parquet"]>>]
            /\ l_pc' = "done"
       ELSE /\ Raise("storage_error")
            /\ UNCHANGED l_fetched
  /\ UNCHANGED <<l_args, l_files, l_pages, parquet_files, continuation_token,
                 l_requests>>

\* lines 53-54
StartListing ==
  /\ UNCHANGED <<embedVars, ctxVars, apiVars>>
  /\ l_pc = "start" /\ ~ is_local /\ ~ Truthy(single_key)
  /\ parquet_files' = <<>>
  /\ continuation_token' = 0
  /\ l_pc' = "list"
  /\ UNCHANGED <<l_args, l_files, l_pages, l_requests, l_fetched, l_result>>

\* the page list_objects_v2 answers with: the first one without a
\* ContinuationToken, the one the token leads to otherwise
RequestedPage == IF continuation_token > 0 THEN continuation_token ELSE 1

\* lines 55-76: one iteration of the while loop
ListPage ==
  /\ UNCHANGED <<embedVars, ctxVars, apiVars>>
  /\ l_pc = "list"
  /\ Len(l_requests) < MaxRequests
  /\ LET response == l_pages[RequestedPage] IN
       /\ l_requests' = Append(l_requests,
                               [page |-> RequestedPage,
                                with_prefix |-> Truthy(prefix),
                                with_token |-> continuation_token > 0])
       /\ IF Len(response.keys) = 0
          THEN /\ Raise("FileNotFoundError")
               /\ UNCHANGED <<parquet_files, continuation_token>>
          ELSE /\ parquet_files' = parquet_files \o ParquetOf(response.keys)
               /\ UNCHANGED l_result
               /\ IF response.truncated
                  THEN /\ continuation_token' = response.next
                       /\ l_pc' = "list"
                  ELSE /\ UNCHANGED continuation_token
                       /\ l_pc' = "check"
  /\ UNCHANGED <<l_args, l_files, l_pages, l_fetched>>

\* mutant: the check after the listing loop is missing
CheckFound_NoCheck ==
  /\ UNCHANGED <<embedVars, ctxVars, apiVars>>
  /\ l_pc = "check"
  /\ l_pc' = "fetch"
  /\ UNCHANGED <<l_args, l_files, l_pages, parquet_files, continuation_token,
                 l_requests, l_fetched, l_result>>

\* lines 78-79
CheckFound ==
  /\ UNCHANGED <<embedVars, ctxVars, apiVars>>
  /\ l_pc = "check"
  /\ IF Len(parquet_files) = 0
     THEN Raise("FileNotFoundError")
     ELSE l_pc' = "fetch" /\ UNCHANGED l_result
  /\ UNCHANGED <<l_args, l_files, l_pages, parquet_files, continuation_token,
                 l_requests, l_fetched>>

\* lines 82-85: one iteration of the fetch loop
FetchObject ==
  /\ UNCHANGED <<embedVars, ctxVars, apiVars>>
  /\ l_pc = "fetch"
  /\ Len(l_fetched) < Len(parquet_files)
  /\ l_fetched' = Append(l_fetched, parquet_files[Len(l_fetched) + 1])
  /\ UNCHANGED <<l_args, l_files, l_pages, parquet_files, continuation_token,
                 l_requests, l_pc, l_result>>

\* line 87
ConcatFrames ==
  /\ UNCHANGED <<embedVars, ctxVars, apiVars>>
  /\ l_pc = "fetch"
  /\ Len(l_fetched) = Len(parquet_files)
  /\ l_result' = [kind |-> "table", rows |-> l_fetched]
  /\ l_pc' = "done"
  /\ UNCHANGED <<l_args, l_files, l_pages, parquet_files, continuation_token,
                 l_requests, l_fetched>>

LoaderInit ==
  /\ l_args \in [is_local : BOOLEAN, prefix : {"<None>", "data/"},
                 single_key : {"<None>", "a.parquet"}]
  /\ IF l_args.is_local /\ ~ Truthy(l_args.single_key)
     THEN \E kinds \in [1..MaxFiles -> FileKinds] : l_files = LocalTree(kinds)
     ELSE l_files = {}
  /\ IF ~ l_args.is_local /\ ~ Truthy(l_args.single_key)
     THEN \E n \in 1..MaxPages :
            \E contents \in [1..n -> PageContents] :
              \E tokens \in [1..(n - 1) -> TokenKinds] :
                l_pages = Listing(n, contents, tokens)
     ELSE l_pages = <<>>
  /\ parquet_files = <<>> /\ continuation_token = 0
  /\ l_requests = <<>> /\ l_fetched = <<>>
  /\ l_pc = "start" /\ l_result = [kind |-> "none", rows |-> <<>>]

InitLoader == EmbedIdle /\ LoaderInit /\ ContextIdle /\ ApiIdle

NextLoader ==
  \/ LocalSingle
  \/ LocalWalk
  \/ RemoteSingle
  \/ StartListing
  \/ ListPage
  \/ CheckFound
  \/ FetchObject
  \/ ConcatFrames

SpecLoader == InitLoader /\ [][NextLoader]_vars

\* ------------------------------------------------- load_parquet_from_s3: claims
ModeB == l_pc # "idle" /\ ~ Truthy(single_key)
Finished == l_pc \in {"done", "raised"}

\* C6: in Mode B, locally and remotely, a load that ends with zero files
\* ending in ".parquet" discovered (in particular when the directory tree or
\* the listing holds none) ends with FileNotFoundError, and no file was read
\* or fetched; a read or fetch happens only after a discovery.
C6_NotFoundWhenNothingDiscovered ==
  ModeB =>
    /\ Finished /\ Len(parquet_files) = 0 =>
         l_result.kind = "FileNotFoundError" /\ l_fetched = <<>>
    /\ Finished /\ is_local /\ Glob(l_files) = {} =>
         l_result.kind = "FileNotFoundError" /\ l_fetched = <<>>
    /\ Finished /\ ~ is_local /\ ParquetOf(AllKeys(l_pages, 1)) = <<>> =>
         l_result.kind = "FileNotFoundError" /\ l_fetched = <<>>
    /\ (l_fetched # <<>> \/ l_pc = "fetch") => Len(parquet_files) > 0

\* C6 witness: a remote listing of two pages, both with keys and none of them
\* a parquet key, was listed to its end and the load raised not-found
C6_Witness ==
  /\ ModeB /\ ~ is_local
  /\ Len(l_pages) = 2 /\ Len(l_requests) = 2
  /\ \A p \in 1..2 : Len(l_pages[p].keys) > 0
  /\ ParquetOf(AllKeys(l_pages, 1)) = <<>>
  /\ l_pc = "raised" /\ l_result.kind = "FileNotFoundError"
  /\ l_fetched = <<>>

\* every truncated page carries the token of the page after it
WellFormed(pages) ==
  \A p \in 1..Len(pages) : pages[p].truncated => pages[p].next = p + 1

\* C7: in remote Mode B, over a listing whose truncated pages all carry their
\* continuation token and which holds at least one key ending in ".parquet",
\* a load that ends after discovering such a key has requested the pages one
\* by one in order up to the last, and has fetched and concatenated exactly
\* the parquet keys of all pages, in listing order, each once.
C7_FetchesEveryListedParquetKey ==
  /\ ModeB /\ ~ is_local /\ Finished
  /\ WellFormed(l_pages)
  /\ ParquetOf(AllKeys(l_pages, 1)) # <<>>
  /\ Len(parquet_files) > 0
  =>
    /\ l_pc = "done"
    /\ [k \in 1..Len(l_requests) |-> l_requests[k].page] =
         [k \in 1..Len(l_pages) |-> k]
    /\ l_fetched = ParquetOf(AllKeys(l_pages, 1))
    /\ l_result = [kind |-> "table", rows |-> ParquetOf(AllKeys(l_pages, 1))]

\* C12: in remote Mode B, whatever the next continuation tokens of the
\* truncated pages are (present, absent or empty), the listing loop never
\* requests a page it has already listed, every request after the first
\* carries a continuation token, every request but the latest was answered
\* by a page marked truncated, and so the loop makes at most as many
\* requests as the listing has pages.
C12_ListingNeverRepeatsAPage ==
  ModeB /\ ~ is_local =>
    /\ \A j, k \in 1..Len(l_requests) :
         j < k => l_requests[j].page # l_requests[k].page
    /\ \A k \in 2..Len(l_requests) : l_requests[k].with_token
    /\ \A k \in 1..(Len(l_requests) - 1) : l_pages[l_requests[k].page].truncated
    /\ Len(l_requests) <= Len(l_pages)

\* ========================================================= build_context_string
MaxChunks == 5

\* dict.get(key, default)
Get(map, key, default) == IF key \in DOMAIN map THEN map[key] ELSE default

EmptyMap == [k \in {} |-> ""]

TagFields == <<"obligation", "penalty", "permission", "prohibition">>

\* a metadata field holds "Y", another value, or is absent
FieldValues == {"Y", "N", "<absent>"}

\* the metadata mapping with the given tag values at the four tag fields
\* (an absent one is no key of the mapping) and, when `full`, the text
\* fields of chunk k
Metadata(k, tagvals, full) ==
  LET present == {f \in 1..4 : tagvals[f] # "<absent>"}
      tags == [name \in {TagFields[f] : f \in present} |->
                 tagvals[CHOOSE f \in present : TagFields[f] = name]]
      texts == IF full
               THEN [name \in {"text", "state", "county", "section"} |->
                       <<name, k>>]
               ELSE EmptyMap
  IN tags @@ texts

\* match k of an input list: the tag values of the list's assignment rotated
\* by k-1 fields, so that the matches of one list differ
Match(k, assignment, with_metadata, full) ==
  LET tagvals == [f \in 1..4 |-> assignment[((f + k - 2) % 4) + 1]]
      meta == IF with_metadata
              THEN [name \in {"metadata"} |-> Metadata(k, tagvals, full)]
              ELSE EmptyMap
      score == IF full THEN [name \in {"score"} |-> 10000 * k + 7]
               ELSE EmptyMap
  IN meta @@ score

\* f"{score:.4f}": a score in units of 0.00001 rounded to units of 0.0001
Format4f(score) == (score + 5) \div 10

Line(kind, num, val) == [kind |-> kind, num |-> num, val |-> val]

NoDocuments == <<Line("Message", 0, <<"No documents were retrieved.">>)>>

\* retrieved_chunks[:max_chunks]
FirstN(list, n) ==
  IF n >= 0 THEN SubSeq(list, 1, Min(n, Len(list)))
  ELSE SubSeq(list, 1, Len(list) + n)

\* mutant: one match too many is kept
MatchesToProcess_OffByOne(chunks, mc) ==
  IF mc.given THEN FirstN(chunks, mc.n + 1) ELSE chunks

\* lines 25-27
MatchesToProcess(chunks, mc) ==
  IF mc.given THEN FirstN(chunks, mc.n) ELSE chunks

\* mutant: a tag is added whenever its field is present
TagsOf_AnyValue(metadata) ==
  LET t1 == IF "obligation" \in DOMAIN metadata THEN <<"Obligation">> ELSE <<>>
      t2 == IF "penalty" \in DOMAIN metadata THEN Append(t1, "Penalty") ELSE t1
      t3 == IF "permission" \in DOMAIN metadata THEN Append(t2, "Permission") ELSE t2
      t4 == IF "prohibition" \in DOMAIN metadata THEN Append(t3, "Prohibition") ELSE t3
  IN t4

\* lines 39-47
TagsOf(metadata) ==
  LET t1 == IF Get(metadata, "obligation", "<None>") = "Y" THEN <<"Obligation">> ELSE <<>>
      t2 == IF Get(metadata, "penalty", "<None>") = "Y" THEN Append(t1, "Penalty") ELSE t1
      t3 == IF Get(metadata, "permission", "<None>") = "Y" THEN Append(t2, "Permission") ELSE t2
      t4 == IF Get(metadata, "prohibition", "<None>") = "Y" THEN Append(t3, "Prohibition") ELSE t3
  IN t4

\* lines 30-58: the lines appended for match number idx (0-based)
Block(match, idx) ==
  LET metadata == Get(match, "metadata", EmptyMap)
      score == Get(match, "score", 0)
      chunk_text == Get(metadata, "text", <<"N/A", 0>>)
      state == Get(metadata, "state", <<"N/A", 0>>)
      county == Get(metadata, "county", <<"N/A", 0>>)
      section == Get(metadata, "section", <<"N/A", 0>>)
      tags == TagsOf(metadata)
  IN <<Line("Chunk", idx + 1, <<>>),
       Line("Score", Format4f(score), <<>>),
       Line("State", state[2], <<state[1]>>),
       Line("County", county[2], <<county[1]>>),
       Line("Section", section[2], <<section[1]>>)>>
     \o (IF Len(tags) > 0 THEN <<Line("Tags", 0, tags)>> ELSE <<>>)
     \o <<Line("Text", chunk_text[2], <<chunk_text[1]>>), Line("Blank", 0, <<>>)>>

RECURSIVE Blocks(_, _)
Blocks(matches, idx) ==
  IF idx >= Len(matches) THEN <<>>
  ELSE Block(matches[idx + 1], idx) \o Blocks(matches, idx + 1)

\* lines 21-60
build_context_string(chunks, mc) ==
  IF Len(chunks) = 0 THEN NoDocuments
  ELSE Blocks(MatchesToProcess(chunks, mc), 0)

BuildContext ==
  /\ UNCHANGED <<embedVars, loaderVars, apiVars>>
  /\ c_pc = "call"
  /\ context_string' = build_context_string(retrieved_chunks, max_chunks)
  /\ c_pc' = "done"
  /\ UNCHANGED <<retrieved_chunks, max_chunks>>

ContextInit ==
  /\ \E n \in 0..MaxChunks, assignment \in [1..4 -> FieldValues],
        with_metadata \in BOOLEAN, full \in BOOLEAN :
       retrieved_chunks = [k \in 1..n |-> Match(k, assignment, with_metadata, full)]
  /\ max_chunks \in {[given |-> FALSE, n |-> 0]} \cup
                    [given : {TRUE}, n : -1..(MaxChunks + 1)]
  /\ context_string = <<>>
  /\ c_pc = "call"

InitContext == EmbedIdle /\ LoaderIdle /\ ContextInit /\ ApiIdle

NextContext == BuildContext

SpecContext == InitContext /\ [][NextContext]_vars

\* ------------------------------------------------- build_context_string: claims
IsHeader(line) == line.kind = "Chunk"
IsText(line) == line.kind = "Text"
IsTags(line) == line.kind = "Tags"

\* the positions of the "[Chunk i]" lines of the output, ascending
RECURSIVE HeaderPositions(_, _)
HeaderPositions(lines, from) ==
  IF from > Len(lines) THEN <<>>
  ELSE (IF IsHeader(lines[from]) THEN <<from>> ELSE <<>>)
       \o HeaderPositions(lines, from + 1)

\* the lines of the b-th block of the output: from its header up to the line
\* before the next header
OutputBlock(lines, b) ==
  LET pos == HeaderPositions(lines, 1)
      last == IF b < Len(pos) THEN pos[b + 1] - 1 ELSE Len(lines)
  IN SubSeq(lines, pos[b], last)

\* the text field a match carries
GivenText(match) ==
  IF "metadata" \in DOMAIN match /\ "text" \in DOMAIN match.metadata
  THEN match.metadata.text ELSE <<"N/A", 0>>

ExpectedBlocks ==
  IF max_chunks.given THEN Min(max_chunks.n, Len(retrieved_chunks))
  ELSE Len(retrieved_chunks)

\* C8: the result is exactly "No documents were retrieved." iff the match
\* list is empty; for a non-empty list with max_chunks absent or >= 0 the
\* output holds exactly L, resp. min(max_chunks, L), blocks, the i-th headed
\* "[Chunk i]" and carrying the text of the i-th match of the input.
C8_BlocksOfFirstMatches ==
  c_pc = "done" =>
    /\ (context_string = NoDocuments) <=> (Len(retrieved_chunks) = 0)
    /\ Len(retrieved_chunks) > 0 /\ (max_chunks.given => max_chunks.n >= 0) =>
         LET heads == SelectSeq(context_string, IsHeader)
             texts == SelectSeq(context_string, IsText)
         IN /\ Len(heads) = ExpectedBlocks
            /\ Len(texts) = ExpectedBlocks
            /\ \A b \in 1..ExpectedBlocks :
                 /\ heads[b].num = b
                 /\ OutputBlock(context_string, b)[1] = Line("Chunk", b, <<>>)
                 /\ SelectSeq(OutputBlock(context_string, b), IsText) =
                      <<Line("Text", GivenText(retrieved_chunks[b])[2],
                             <<GivenText(retrieved_chunks[b])[1]>>)>>

\* C8 witness: of five matches with text the first two were rendered
C8_Witness ==
  /\ c_pc = "done"
  /\ Len(retrieved_chunks) = 5
  /\ max_chunks = [given |-> TRUE, n |-> 2]
  /\ SelectSeq(context_string, IsHeader) =
       <<Line("Chunk", 1, <<>>), Line("Chunk", 2, <<>>)>>
  /\ SelectSeq(context_string, IsText) =
       <<Line("Text", 1, <<"text">>), Line("Text", 2, <<"text">>)>>

TagNames == <<"Obligation", "Penalty", "Permission", "Prohibition">>

\* whether field f of the match equals "Y"
FieldIsY(match, f) ==
  /\ "metadata" \in DOMAIN match
  /\ TagFields[f] \in DOMAIN match.metadata
  /\ match.metadata[TagFields[f]] = "Y"

\* the names of the tags whose field equals "Y", in the fixed order
RECURSIVE ExpectedTags(_, _)
ExpectedTags(match, f) ==
  IF f > 4 THEN <<>>
  ELSE (IF FieldIsY(match, f) THEN <<TagNames[f]>> ELSE <<>>)
       \o ExpectedTags(match, f + 1)

\* C9: the block rendered for a match holds a "Tags:" line iff at least one
\* of obligation, penalty, permission, prohibition equals "Y", and that line
\* lists exactly the tags of the fields equal to "Y", in the order
\* Obligation, Penalty, Permission, Prohibition.
C9_TagsLine ==
  c_pc = "done" /\ context_string # NoDocuments =>
    \A b \in 1..Len(SelectSeq(context_string, IsHeader)) :
      LET match == retrieved_chunks[b]
          tagLines == SelectSeq(OutputBlock(context_string, b), IsTags)
          anyY == \E f \in 1..4 : FieldIsY(match, f)
      IN /\ (Len(tagLines) > 0) <=> anyY
         /\ anyY => tagLines = <<Line("Tags", 0, ExpectedTags(match, 1))>>

\* C9 witness: a match with obligation "Y", penalty "Y", permission "N" and
\* no prohibition field was rendered with "Tags: Obligation, Penalty", as the
\* first of at least two blocks
C9_Witness ==
  /\ c_pc = "done"
  /\ Len(retrieved_chunks) >= 2
  /\ "metadata" \in DOMAIN retrieved_chunks[1]
  /\ LET m == retrieved_chunks[1].metadata IN
       /\ "prohibition" \notin DOMAIN m
       /\ {"obligation", "penalty", "permission"} \subseteq DOMAIN m
       /\ m.obligation = "Y" /\ m.penalty = "Y" /\ m.permission = "N"
  /\ Len(SelectSeq(context_string, IsHeader)) >= 2
  /\ SelectSeq(OutputBlock(context_string, 1), IsTags) =
       <<Line("Tags", 0, <<"Obligation", "Penalty">>)>>

\* ======================================================================= api.py
MaxServed == 2

\* RAGPipeline(use_reranking=...): the constructor returns or raises
Constructed(use_reranking) ==
  [state |-> "ready", use_reranking |-> use_reranking, runs |-> 0]

Failed(use_reranking) ==
  [state |-> "failed", use_reranking |-> use_reranking, runs |-> 0]

\* line 8, at module load
ConstructBaseline ==
  /\ UNCHANGED <<embedVars, loaderVars, ctxVars>>
  /\ a_pc = "init_baseline"
  /\ \/ baseline_pipeline' = Constructed(FALSE) /\ a_pc' = "init_hybrid"
     \/ baseline_pipeline' = Failed(FALSE) /\ a_pc' = "crashed"
  /\ UNCHANGED <<hybrid_pipeline, a_runs, a_request, a_response, a_served>>

\* line 9, at module load
ConstructHybrid ==
  /\ UNCHANGED <<embedVars, loaderVars, ctxVars>>
  /\ a_pc = "init_hybrid"
  /\ \/ hybrid_pipeline' = Constructed(TRUE) /\ a_pc' = "loaded"
     \/ hybrid_pipeline' = Failed(TRUE) /\ a_pc' = "crashed"
  /\ UNCHANGED <<baseline_pipeline, a_runs, a_request, a_response, a_served>>

\* lines 12-34: the routes are registered and the server starts
RunApp ==
  /\ UNCHANGED <<embedVars, loaderVars, ctxVars>>
  /\ a_pc = "loaded"
  /\ a_pc' = "serving"
  /\ UNCHANGED <<baseline_pipeline, hybrid_pipeline, a_runs, a_request,
                 a_response, a_served>>

\* a request that arrives while the module is still loading, or after the
\* load has failed: no route exists and nothing listens (lines 8-10 precede
\* the route definitions and app.run)
RequestBeforeServing ==
  /\ UNCHANGED <<embedVars, loaderVars, ctxVars>>
  /\ a_pc # "serving"
  /\ \E kind \in {"GET /health", "POST /query"} :
       a_request' = [kind |-> kind, data |-> EmptyMap, at |-> a_pc]
  /\ a_response' = [kind |-> "unanswered", body |-> EmptyMap]
  /\ a_runs' = <<>>
  /\ UNCHANGED <<a_pc, baseline_pipeline, hybrid_pipeline, a_served>>

HealthPayload == [status |-> "healthy", gpu |-> "available"]

\* mutant: the health check probes the hybrid pipeline
health_Probing ==
  /\ UNCHANGED <<embedVars, loaderVars, ctxVars>>
  /\ a_pc = "serving"
  /\ a_request' = [kind |-> "GET /health", data |-> EmptyMap, at |-> a_pc]
  /\ a_response' = [kind |-> "json", body |-> HealthPayload]
  /\ a_runs' = <<[pipeline |-> "hybrid_pipeline", query_text |-> "ping",
                  filters |-> "{}"]>>
  /\ hybrid_pipeline' = [hybrid_pipeline EXCEPT !.runs = @ + 1]
  /\ UNCHANGED <<a_pc, baseline_pipeline, a_served>>

\* lines 12-14
health ==
  /\ UNCHANGED <<embedVars, loaderVars, ctxVars>>
  /\ a_pc = "serving"
  /\ a_request' = [kind |-> "GET /health", data |-> EmptyMap, at |-> a_pc]
  /\ a_response' = [kind |-> "json", body |-> HealthPayload]
  /\ a_runs' = <<>>
  /\ UNCHANGED <<a_pc, baseline_pipeline, hybrid_pipeline, a_served>>

\* the JSON objects sent to /query: each of query, filters, mode present or
\* not; mode may be any string, or null
RequestBodies ==
  {q @@ f @@ m :
     q \in {EmptyMap, [k \in {"query"} |-> "what is the fine?"]},
     f \in {EmptyMap, [k \in {"filters"} |-> "{state: TX}"]},
     m \in {EmptyMap} \cup
           {[k \in {"mode"} |-> v] :
              v \in {"hybrid", "baseline", "anything-else", "Hybrid", "<null>"}}}

\* pipeline.run(query_text, filters): returns (llm_output, retrieved_chunks)
\* or raises
PipelineRun(name, query_text, filters, ok) ==
  IF ok THEN [raised |-> FALSE, llm_output |-> "answer of " \o name,
              retrieved_chunks |-> "chunks of " \o name]
  ELSE [raised |-> TRUE, llm_output |-> "", retrieved_chunks |-> ""]

\* mutant: a request without mode falls back to baseline
ModeOf_DefaultBaseline(data) == Get(data, "mode", "baseline")

\* line 21
ModeOf(data) == Get(data, "mode", "hybrid")

\* line 24: the name of the selected instance
SelectPipeline(mode) == IF mode = "hybrid" THEN "hybrid_pipeline" ELSE "baseline_pipeline"

\* lines 16-31
query ==
  /\ UNCHANGED <<embedVars, loaderVars, ctxVars>>
  /\ a_pc = "serving"
  /\ a_served < MaxServed
  /\ \E data \in RequestBodies, ok \in BOOLEAN :
       LET query_text == Get(data, "query", "")
           filters == Get(data, "filters", "{}")
           mode == ModeOf(data)
           pipeline == SelectPipeline(mode)
           out == PipelineRun(pipeline, query_text, filters, ok)
       IN /\ a_request' = [kind |-> "POST /query", data |-> data, at |-> a_pc]
          /\ a_runs' = <<[pipeline |-> pipeline, query_text |-> query_text,
                          filters |-> filters]>>
          /\ IF pipeline = "hybrid_pipeline"
             THEN /\ hybrid_pipeline' = [hybrid_pipeline EXCEPT !.runs = @ + 1]
                  /\ UNCHANGED baseline_pipeline
             ELSE /\ baseline_pipeline' = [baseline_pipeline EXCEPT !.runs = @ + 1]
                  /\ UNCHANGED hybrid_pipeline
          /\ a_response' =
               IF out.raised
               THEN [kind |-> "error", body |-> EmptyMap]
               ELSE [kind |-> "json",
                     body |-> [response |-> out.llm_output,
                               chunks |-> out.retrieved_chunks,
                               mode |-> mode]]
  /\ a_served' = a_served + 1
  /\ UNCHANGED a_pc

ApiInit ==
  /\ a_pc = "init_baseline"
  /\ baseline_pipeline = Unconstructed
  /\ hybrid_pipeline = Unconstructed
  /\ a_runs = <<>>
  /\ a_request = NoRequest /\ a_response = NoResponse /\ a_served = 0

InitApi == EmbedIdle /\ LoaderIdle /\ ContextIdle /\ ApiInit

NextApi ==
  \/ ConstructBaseline
  \/ ConstructHybrid
  \/ RunApp
  \/ RequestBeforeServing
  \/ health
  \/ query

SpecApi == InitApi /\ [][NextApi]_vars

\* ------------------------------------------------------------- api.py: claims

\* C5: a POST /query request handled by the service (its body a JSON
\* object) has invoked run exactly once, on the
\* hybrid instance iff the request's mode is the string "hybrid" or the mode
\* field is absent and on the baseline instance otherwise, with the
\* request's query and filters (defaults "" and {}); a response carries the
\* request's mode value, "hybrid" when the field is absent.
C5_ModeSelectsPipeline ==
  a_request.kind = "POST /query" /\ a_response.kind # "unanswered" =>
    LET data == a_request.data
        absent == "mode" \notin DOMAIN data
        hybrid == absent \/ data.mode = "hybrid"
    IN /\ Len(a_runs) = 1
       /\ (a_runs[1].pipeline = "hybrid_pipeline") <=> hybrid
       /\ (a_runs[1].pipeline = "baseline_pipeline") <=> ~ hybrid
       /\ a_runs[1].query_text =
            (IF "query" \in DOMAIN data THEN data.query ELSE "")
       /\ a_runs[1].filters =
            (IF "filters" \in DOMAIN data THEN data.filters ELSE "{}")
       /\ baseline_pipeline.runs + hybrid_pipeline.runs = a_served
       /\ ~ baseline_pipeline.use_reranking /\ hybrid_pipeline.use_reranking
       /\ a_response.kind = "json" =>
            a_response.body.mode = (IF absent THEN "hybrid" ELSE data.mode)

\* C5 witness: a request without mode went to the hybrid instance after a
\* request with another mode had gone to the baseline instance
C5_Witness ==
  /\ a_request.kind = "POST /query"
  /\ "mode" \notin DOMAIN a_request.data
  /\ Len(a_runs) = 1
  /\ a_runs[1].pipeline = "hybrid_pipeline"
  /\ a_response.kind = "json" /\ a_response.body.mode = "hybrid"
  /\ hybrid_pipeline.runs = 1 /\ baseline_pipeline.runs = 1

\* C10 as stated: in every state of the service, also before the
\* Orchestrators are constructed and after a construction has failed, a
\* health request is answered with the fixed payload.
C10_HealthAnsweredInEveryState ==
  a_request.kind = "GET /health" =>
    a_response = [kind |-> "json", body |-> HealthPayload]

\* C10 as amended: a health request is answered only once both Orchestrators
\* have been constructed and the server has started (no request is answered
\* while the module loads or after a construction has failed); every answer
\* is the fixed payload, and answering invokes neither Orchestrator and
\* changes neither.
C10_HealthWhenServing ==
  a_request.kind = "GET /health" =>
    /\ (a_response.kind = "json") <=> (a_request.at = "serving")
    /\ a_response.kind = "json" => a_pc = "serving"
    /\ a_response.kind # "json" => a_response.kind = "unanswered"
    /\ a_response.kind = "json" =>
         /\ a_response.body = [status |-> "healthy", gpu |-> "available"]
         /\ baseline_pipeline.state = "ready" /\ hybrid_pipeline.state = "ready"
         /\ a_runs = <<>>
         /\ baseline_pipeline.runs + hybrid_pipeline.runs = a_served

\* C10 witness: a health request was answered after a query had been served
C10_Witness ==
  /\ a_request.kind = "GET /health"
  /\ a_response = [kind |-> "json", body |-> HealthPayload]
  /\ a_served = 1

====
